---- MODULE Spec2Model ----
(***************************************************************************)
(* World-Sim: the gravitational orbit simulator of main.py                 *)
(* (WorldSimulator) over the bodies of celestial_body.py (CelestialBody).  *)
(*                                                                         *)
(* Numbers.  The program computes in IEEE-754 binary64 through numpy.      *)
(* The model computes in a decimal floating point of the same kind with    *)
(* four significant digits: a value is finite (mantissa m, exponent e,     *)
(* value m * 10^e), an infinity or a NaN; every operation rounds to        *)
(* nearest, ties to even, overflows to an infinity beyond 1.797e308 and    *)
(* follows numpy's rules for 0/0, x/0 and inf*0.  Four digits keep every   *)
(* intermediate product inside 32-bit integers.                            *)
(*                                                                         *)
(* Worlds.  main.py builds bodies of three coordinates; CelestialBody is   *)
(* written for two ([x, y], acceleration np.zeros(2)).  The model runs the *)
(* simulator over both: the world of main.py and the planar world of the   *)
(* same construction without z.                                            *)
(***************************************************************************)
EXTENDS Integers, Sequences, FiniteSets, TLC

VARIABLES
    sim,      \* the WorldSimulator instance run() drives
    twin,     \* a second WorldSimulator given the same commands, its own dt arguments
    running,  \* run(): the local variable `running`
    exc,      \* the exception that left run() uncaught, "none" while there is none
    last,     \* the operation that produced this state and its arguments
    before,   \* the value of sim when that operation began
    body,     \* a CelestialBody on its own (body-level specifications)
    center,   \* the body it is attracted to (body-level specifications)
    force,    \* the result of the last calculate_force call (body-level)
    ticks     \* update() calls made while not paused, since construction or reset

vars == <<sim, twin, running, exc, last, before, body, center, force, ticks>>

----------------------------------------------------------------------------
(* Floating point *)

RECURSIVE Pow10(_)
Pow10(k) == IF k = 0 THEN 1 ELSE 10 * Pow10(k - 1)

Abs(n) == IF n < 0 THEN -n ELSE n

Sgn(n) == IF n < 0 THEN -1 ELSE IF n > 0 THEN 1 ELSE 0

RECURSIVE NumDigits(_)
NumDigits(n) == IF n < 10 THEN 1 ELSE 1 + NumDigits(n \div 10)

Zero == [k |-> "fin", m |-> 0, e |-> 0]

NaN == [k |-> "nan", m |-> 0, e |-> 0]

Inf(s) == [k |-> "inf", m |-> s, e |-> 0]

\* The range of binary64: beyond 1.797e308 an infinity, below 4.94e-324 zero.
Ranged(s, m, e) ==
    IF e > 305 \/ (e = 305 /\ m > 1797) THEN Inf(s)
    ELSE IF e < -327 THEN Zero
    ELSE [k |-> "fin", m |-> s * m, e |-> e]

\* The float nearest to s * n * 10^e (n >= 0); sticky says that the exact
\* value lies strictly above n * 10^e in magnitude (digits already cut).
Normalize(s, n, e, sticky) ==
    IF n = 0 THEN Zero
    ELSE LET d == NumDigits(n)
         IN  IF d <= 4
             THEN Ranged(s, n * Pow10(4 - d), e - (4 - d))
             ELSE LET q    == Pow10(d - 4)
                      t    == n \div q
                      r    == n % q
                      half == q \div 2
                      up   == r > half \/ (r = half /\ (sticky \/ t % 2 = 1))
                      t2   == IF up THEN t + 1 ELSE t
                  IN  IF t2 = 10000 THEN Ranged(s, 1000, e + (d - 4) + 1)
                      ELSE Ranged(s, t2, e + (d - 4))

\* float(n) for a Python int, and the literal m * 10^e
Flt(m, e) == Normalize(Sgn(m), Abs(m), e, FALSE)

F(n) == Flt(n, 0)

IsFinite(a) == a.k = "fin"

IsZero(a) == a.k = "fin" /\ a.m = 0

Neg(a) == IF a.k = "nan" THEN a ELSE [a EXCEPT !.m = -a.m]

Add(a, b) ==
    IF a.k = "nan" \/ b.k = "nan" THEN NaN
    ELSE IF a.k = "inf" THEN (IF b.k = "inf" /\ b.m # a.m THEN NaN ELSE a)
    ELSE IF b.k = "inf" THEN b
    ELSE IF a.m = 0 THEN b
    ELSE IF b.m = 0 THEN a
    ELSE LET hi == IF a.e >= b.e THEN a ELSE b
             lo == IF a.e >= b.e THEN b ELSE a
             d  == hi.e - lo.e
         IN  IF d >= 6 THEN hi
             ELSE LET n == hi.m * Pow10(d) + lo.m
                  IN  Normalize(Sgn(n), Abs(n), lo.e, FALSE)

Sub(a, b) == Add(a, Neg(b))

Mul(a, b) ==
    IF a.k = "nan" \/ b.k = "nan" THEN NaN
    ELSE IF a.k = "inf" \/ b.k = "inf"
         THEN (IF a.m = 0 \/ b.m = 0 THEN NaN ELSE Inf(Sgn(a.m) * Sgn(b.m)))
    ELSE Normalize(Sgn(a.m) * Sgn(b.m), Abs(a.m) * Abs(b.m), a.e + b.e, FALSE)

\* numpy's float division: x/0 is an infinity and 0/0 a NaN (a warning, no exception)
Div(a, b) ==
    IF a.k = "nan" \/ b.k = "nan" THEN NaN
    ELSE IF a.k = "inf" THEN (IF b.k = "inf" THEN NaN
                              ELSE Inf(a.m * (IF b.m < 0 THEN -1 ELSE 1)))
    ELSE IF b.k = "inf" THEN Zero
    ELSE IF b.m = 0 THEN (IF a.m = 0 THEN NaN ELSE Inf(Sgn(a.m)))
    ELSE IF a.m = 0 THEN Zero
    ELSE LET n == Abs(a.m) * 100000
             q == n \div Abs(b.m)
         IN  Normalize(Sgn(a.m) * Sgn(b.m), q, a.e - b.e - 5, n % Abs(b.m) # 0)

RECURSIVE ISqrtIn(_, _, _)
ISqrtIn(x, lo, hi) ==
    IF lo >= hi THEN lo
    ELSE LET mid == (lo + hi + 1) \div 2
         IN  IF mid * mid <= x THEN ISqrtIn(x, mid, hi) ELSE ISqrtIn(x, lo, mid - 1)

ISqrt(x) == ISqrtIn(x, 0, 46340)

Sqrt(a) ==
    IF a.k = "nan" THEN NaN
    ELSE IF a.m < 0 THEN NaN
    ELSE IF a.k = "inf" THEN a
    ELSE IF a.m = 0 THEN Zero
    ELSE IF a.e % 2 = 0
         THEN LET x == a.m * 10000
                  s == ISqrt(x)
              IN  Normalize(1, IF x - s * s > s THEN s + 1 ELSE s, (a.e - 4) \div 2, FALSE)
         ELSE LET x == a.m * 100000
                  s == ISqrt(x)
              IN  Normalize(1, s, (a.e - 5) \div 2, s * s # x)

\* a < b; every comparison with a NaN is false
Less(a, b) ==
    IF a.k = "nan" \/ b.k = "nan" THEN FALSE
    ELSE IF a.k = "inf" THEN a.m < 0 /\ ~(b.k = "inf" /\ b.m < 0)
    ELSE IF b.k = "inf" THEN b.m > 0
    ELSE IF Sgn(a.m) # Sgn(b.m) THEN Sgn(a.m) < Sgn(b.m)
    ELSE IF a.m = 0 THEN FALSE
    ELSE IF a.m > 0 THEN a.e < b.e \/ (a.e = b.e /\ a.m < b.m)
    ELSE a.e > b.e \/ (a.e = b.e /\ a.m < b.m)

\* Python's max(a, b): a unless b > a
Max(a, b) == IF Less(a, b) THEN b ELSE a

----------------------------------------------------------------------------
(* numpy arrays of shape (n,): sequences of floats *)

Zeros(n) == [i \in 1..n |-> Zero]

\* a (op) b elementwise for two arrays of one shape
VecSub(a, b) == [i \in 1..Len(a) |-> Sub(a[i], b[i])]

VecScale(a, c) == [i \in 1..Len(a) |-> Mul(a[i], c)]

VecDiv(a, c) == [i \in 1..Len(a) |-> Div(a[i], c)]

RECURSIVE SumSquares(_, _)
SumSquares(a, i) ==
    IF i > Len(a) THEN Zero ELSE Add(Mul(a[i], a[i]), SumSquares(a, i + 1))

\* np.linalg.norm
Norm(a) == Sqrt(SumSquares(a, 1))

\* target += src: src must broadcast to the shape of target, (n,) or (1,)
Broadcasts(target, src) == Len(src) = Len(target) \/ Len(src) = 1

IAdd(target, src) ==
    [i \in 1..Len(target) |-> Add(target[i], src[IF Len(src) = 1 THEN 1 ELSE i])]

AllFinite(a) == \A i \in 1..Len(a) : IsFinite(a[i])

----------------------------------------------------------------------------
(* celestial_body.py *)

max_trail_length == 500

\* CelestialBody.__init__; radius and color are read by the renderer alone
\* and are left out.  The acceleration is np.zeros(2) whatever the shape of
\* position and velocity.
CelestialBody(mass, position, velocity) ==
    [mass             |-> mass,
     position         |-> position,
     velocity         |-> velocity,
     acceleration     |-> Zeros(2),
     trail            |-> <<>>,
     max_trail_length |-> max_trail_length,
     initial_position |-> position,
     initial_velocity |-> velocity]

\* the gravitational constant and the distance floor of calculate_force
ForceG == Flt(1, 0)

Epsilon == Flt(1, -10)

\* the distance without its floor
DistanceUnfloored(self, center_body) ==
    Norm(VecSub(center_body.position, self.position))

\* distance = max(np.linalg.norm(center.position - self.position), 1e-10)
Distance(self, center_body) ==
    Max(Norm(VecSub(center_body.position, self.position)), Epsilon)

\* force_magnitude = G * center_body.mass * self.mass / (distance ** 2)
ForceMagnitude(self, center_body) ==
    LET distance == Distance(self, center_body)
    IN  Div(Mul(Mul(ForceG, center_body.mass), self.mass), Mul(distance, distance))

\* a force law that follows the mode flag: a magnitude that does not fall
\* with distance in constant-acceleration mode
calculate_force_by_mode(self, center_body, scale, use_constant_acceleration) ==
    VecScale(VecDiv(VecSub(center_body.position, self.position),
                    Distance(self, center_body)),
             IF use_constant_acceleration
             THEN Mul(Mul(ForceG, center_body.mass), self.mass)
             ELSE ForceMagnitude(self, center_body))

\* CelestialBody.calculate_force, for positions of one shape; scale and
\* use_constant_acceleration are parameters the body never reads.
calculate_force(self, center_body, scale, use_constant_acceleration) ==
    LET r         == VecSub(center_body.position, self.position)
        distance  == Distance(self, center_body)
        direction == VecDiv(r, distance)
    IN  VecScale(direction, ForceMagnitude(self, center_body))

\* the attractor taken from the wrong end of the list
CenterIndexLast(bodies) == Len(bodies)

\* center_body = bodies[0]: bodies[0] of the code is bodies[1] here
CenterIndex(bodies) == 1

\* CelestialBody.update_acceleration, called on bodies[i]
update_acceleration(bodies, i, scale, use_constant_acceleration) ==
    LET self        == bodies[i]
        center_body == bodies[CenterIndex(bodies)]
    IN  IF i # CenterIndex(bodies)
        THEN [self EXCEPT !.acceleration =
                 VecDiv(calculate_force(self, center_body, scale,
                                        use_constant_acceleration), self.mass)]
        ELSE [self EXCEPT !.acceleration = Zeros(2)]

\* the eviction one entry early: len(self.trail) >= self.max_trail_length
AppendedEvictingEarly(trail, position, maxlen) ==
    IF Len(trail) + 1 >= maxlen THEN Tail(Append(trail, position))
    ELSE Append(trail, position)

\* the eviction taking the newest entry: trail.pop() for trail.pop(0)
AppendedDroppingNewest(trail, position, maxlen) ==
    IF Len(trail) + 1 > maxlen THEN trail ELSE Append(trail, position)

\* the append and eviction of update_position
Appended(trail, position, maxlen) ==
    LET t == Append(trail, position)
    IN  IF Len(t) > maxlen THEN Tail(t) ELSE t

\* CelestialBody.update_position: the body afterwards and the exception raised.
\* An in-place += raises ValueError before it writes when the shapes differ.
\* line 69 on: self.position += self.velocity * dt, then the trail
MovedTo(self, p) ==
    [body |-> [self EXCEPT !.position = p,
                           !.trail = Appended(self.trail, p, self.max_trail_length)],
     exc  |-> "none"]

AdvancePosition(self, dt) ==
    IF ~Broadcasts(self.position, self.velocity)
    THEN [body |-> self, exc |-> "ValueError"]
    ELSE MovedTo(self, IAdd(self.position, VecScale(self.velocity, F(dt))))

\* line 66: self.velocity += self.acceleration * dt
AdvanceVelocity(self, dt) ==
    [self EXCEPT !.velocity = IAdd(self.velocity, VecScale(self.acceleration, F(dt)))]

update_position(self, dt) ==
    IF ~Broadcasts(self.velocity, self.acceleration)
    THEN [body |-> self, exc |-> "ValueError"]
    ELSE AdvancePosition(AdvanceVelocity(self, dt), dt)

\* CelestialBody.reset
reset(self) ==
    [self EXCEPT !.position = self.initial_position,
                 !.velocity = self.initial_velocity,
                 !.acceleration = Zeros(2),
                 !.trail = <<>>]

----------------------------------------------------------------------------
(* main.py: WorldSimulator *)

num_outer_bodies == 1

\* np.cos and np.sin of angle = i * (2 * pi / num_outer_bodies): with one outer
\* body the only angle is 0, where both are exact
CosAngle(i) == IF i = 0 THEN F(1) ELSE NaN

SinAngle(i) == IF i = 0 THEN F(0) ELSE NaN

\* The number of coordinates of the world: main.py builds three (x, y, z); the
\* planar variant of the simulator builds two (x, y).
Dimensions == {2, 3}

\* WorldSimulator.create_solar_system: the list self.bodies
create_solar_system(s) ==
    LET n      == Len(s.initial_sun_pos)
        center_body == CelestialBody(s.central_mass, s.initial_sun_pos, Zeros(n))
        orbiter(i) ==
            LET x   == Mul(s.orbital_distance, CosAngle(i))
                y   == Mul(s.orbital_distance, SinAngle(i))
                z   == F(0)
                vel_magnitude ==
                       Sqrt(Div(Mul(s.G, s.central_mass), s.orbital_distance))
                vel_x == Mul(Neg(vel_magnitude), SinAngle(i))
                vel_y == Mul(vel_magnitude, CosAngle(i))
                vel_z == F(0)
            IN  CelestialBody(F(10), SubSeq(<<x, y, z>>, 1, n),
                              SubSeq(<<vel_x, vel_y, vel_z>>, 1, n))
    IN  <<center_body>> \o [i \in 1..num_outer_bodies |-> orbiter(i - 1)]

\* WorldSimulator.__init__ for a world of n coordinates: the fields the
\* physics reads (window, fonts, camera and clock are the renderer's)
WorldSimulator(n) ==
    LET s0 == [G                         |-> Flt(1, 0),
               central_mass              |-> Flt(1000, 0),
               dt                        |-> 1,
               bodies                    |-> <<>>,
               paused                    |-> TRUE,
               use_constant_acceleration |-> FALSE,
               scale                     |-> Flt(1, 9),
               simulation_time           |-> 0,
               initial_sun_pos           |-> Zeros(n),
               orbital_distance          |-> F(150)]
    IN  [s0 EXCEPT !.bodies = create_solar_system(s0)]

\* reset_simulation without the call of create_solar_system
reset_simulation_keeping_bodies(s) ==
    [s EXCEPT !.simulation_time = 0, !.paused = TRUE]

\* WorldSimulator.reset_simulation
reset_simulation(s) ==
    LET s1 == [s EXCEPT !.simulation_time = 0, !.paused = TRUE]
    IN  [s1 EXCEPT !.bodies = create_solar_system(s1)]

\* for body in self.bodies: body.update_acceleration(self.bodies, ...)
RECURSIVE AccelerationLoop(_, _, _, _)
AccelerationLoop(bodies, i, scale, flag) ==
    IF i > Len(bodies) THEN bodies
    ELSE AccelerationLoop(
             [bodies EXCEPT ![i] = update_acceleration(bodies, i, scale, flag)],
             i + 1, scale, flag)

\* for body in self.bodies: body.update_position(self.dt); the loop ends at the
\* first call that raises
RECURSIVE PositionLoop(_, _, _), PositionStep(_, _, _, _)
PositionLoop(bodies, i, dt) ==
    IF i > Len(bodies) THEN [bodies |-> bodies, exc |-> "none"]
    ELSE PositionStep(bodies, i, dt, update_position(bodies[i], dt))

\* r: what update_position did to bodies[i]
PositionStep(bodies, i, dt, r) ==
    IF r.exc # "none"
    THEN [bodies |-> [bodies EXCEPT ![i] = r.body], exc |-> r.exc]
    ELSE PositionLoop([bodies EXCEPT ![i] = r.body], i + 1, dt)

\* update handing its own argument to update_position
StepSizeFromArgument(s, dt) == dt

\* the step size update hands to update_position: self.dt, not its argument
StepSize(s, dt) == s.dt

\* WorldSimulator.update(dt): the simulator afterwards and the exception raised
\* p: the outcome of the position loop; self.simulation_time += self.dt
\* is reached when no call raised
Ticked(s, p) ==
    IF p.exc # "none"
    THEN [sim |-> [s EXCEPT !.bodies = p.bodies], exc |-> p.exc]
    ELSE [sim |-> [s EXCEPT !.bodies = p.bodies,
                            !.simulation_time = s.simulation_time + s.dt],
          exc |-> "none"]

\* one loop doing both calls body by body:
\* for body in self.bodies: body.update_acceleration(...); body.update_position(self.dt)
RECURSIVE InterleavedLoop(_, _, _, _, _), InterleavedStep(_, _, _, _, _, _)
InterleavedLoop(bodies, i, scale, flag, dt) ==
    IF i > Len(bodies) THEN [bodies |-> bodies, exc |-> "none"]
    ELSE InterleavedStep(bodies, i, scale, flag, dt,
             update_position(update_acceleration(bodies, i, scale, flag), dt))

InterleavedStep(bodies, i, scale, flag, dt, r) ==
    IF r.exc # "none"
    THEN [bodies |-> [bodies EXCEPT ![i] = r.body], exc |-> r.exc]
    ELSE InterleavedLoop([bodies EXCEPT ![i] = r.body], i + 1, scale, flag, dt)

update_interleaved(s, dt) ==
    IF ~s.paused
    THEN Ticked(s, InterleavedLoop(s.bodies, 1, s.scale,
                                   s.use_constant_acceleration, StepSize(s, dt)))
    ELSE [sim |-> s, exc |-> "none"]

\* update without the test of self.paused
update_ignoring_pause(s, dt) ==
    Ticked(s, PositionLoop(
                  AccelerationLoop(s.bodies, 1, s.scale, s.use_constant_acceleration),
                  1, StepSize(s, dt)))

update(s, dt) ==
    IF ~s.paused
    THEN Ticked(s, PositionLoop(
                       AccelerationLoop(s.bodies, 1, s.scale,
                                        s.use_constant_acceleration),
                       1, StepSize(s, dt)))
    ELSE [sim |-> s, exc |-> "none"]

\* run(): K_SPACE
key_space(s) == [s EXCEPT !.paused = ~s.paused]

\* run(): K_c
key_c(s) == [s EXCEPT !.use_constant_acceleration = ~s.use_constant_acceleration]

----------------------------------------------------------------------------
(* The host loop run(): key events and one update per frame *)

\* the values a caller hands to update(dt); run() itself hands 100
HostDts == {0, 1, 100}

\* non-paused updates a run may complete
MaxTime == 4

Idle == <<>>

Op(name, d1, d2) == [op |-> name, dt |-> d1, dt2 |-> d2]

Init ==
    /\ \E n \in Dimensions :
          /\ sim = WorldSimulator(n)
          /\ twin = [sim |-> WorldSimulator(n), exc |-> "none"]
          /\ before = WorldSimulator(n)
    /\ running = TRUE
    /\ exc = "none"
    /\ last = Op("init", 0, 0)
    /\ ticks = 0
    /\ body = Idle /\ center = Idle /\ force = Idle

Command(name, s2, t2) ==
    /\ running
    /\ sim' = s2
    /\ twin' = [twin EXCEPT !.sim = t2]
    /\ before' = sim
    /\ last' = Op(name, 0, 0)
    /\ ticks' = IF name = "reset" THEN 0 ELSE ticks
    /\ UNCHANGED <<running, exc, body, center, force>>

KeySpace == Command("space", key_space(sim), key_space(twin.sim))

KeyC == Command("c", key_c(sim), key_c(twin.sim))

KeyR == Command("reset", reset_simulation(sim), reset_simulation(twin.sim))

\* pygame.QUIT or K_ESCAPE
Quit ==
    /\ running
    /\ running' = FALSE
    /\ before' = sim
    /\ last' = Op("quit", 0, 0)
    /\ UNCHANGED <<sim, twin, exc, body, center, force, ticks>>

\* self.update(dt): an uncaught exception ends run()
Updated(r, t, d1, d2) ==
    /\ sim' = r.sim
    /\ exc' = r.exc
    /\ running' = (r.exc = "none")
    /\ twin' = t
    /\ before' = sim
    /\ last' = Op("update", d1, d2)
    /\ ticks' = IF sim.paused THEN ticks ELSE ticks + 1
    /\ UNCHANGED <<body, center, force>>

Update ==
    /\ running
    /\ sim.paused \/ sim.simulation_time < MaxTime
    /\ \E d1 \in HostDts, d2 \in HostDts :
          Updated(update(sim, d1), update(twin.sim, d2), d1, d2)

Next == KeySpace \/ KeyC \/ KeyR \/ Quit \/ Update

Spec == Init /\ [][Next]_vars

----------------------------------------------------------------------------
(* Properties of the simulator *)

\* the world as the constructor of this simulator built it
Constructed == WorldSimulator(Len(sim.initial_sun_pos))

SameBody(a, b) ==
    /\ a.position = b.position
    /\ a.velocity = b.velocity
    /\ a.acceleration = b.acceleration
    /\ a.trail = b.trail

SameBodies(a, b) ==
    /\ Len(a) = Len(b)
    /\ \A i \in 1..Len(a) : SameBody(a[i], b[i])

NonPausedUpdate == last.op = "update" /\ ~before.paused

\* C1: an update(dt) call made while paused leaves every body's position,
\* velocity, acceleration and trail and simulation_time as they were, for
\* every dt, call after call.
C1_PausedUpdateChangesNothing ==
    (last.op = "update" /\ before.paused) =>
        /\ SameBodies(sim.bodies, before.bodies)
        /\ sim.simulation_time = before.simulation_time
        /\ exc = "none"

\* a paused update, with the host's dt of 100, of a world that has moved
C1_Witness ==
    /\ last.op = "update" /\ before.paused /\ last.dt = 100
    /\ before.simulation_time >= 2

\* C2: reset_simulation() leaves simulation_time = 0, paused = true, every
\* body at the position and velocity the constructor's create_solar_system()
\* gave it, and every trail empty, whatever happened before.
C2_ResetRestoresConstruction ==
    last.op = "reset" =>
        /\ sim.simulation_time = 0
        /\ sim.paused
        /\ Len(sim.bodies) = Len(Constructed.bodies)
        /\ \A i \in 1..Len(sim.bodies) :
              /\ sim.bodies[i].position = Constructed.bodies[i].position
              /\ sim.bodies[i].velocity = Constructed.bodies[i].velocity
              /\ sim.bodies[i].trail = <<>>

\* a reset of a running world whose orbiting body has moved
C2_Witness ==
    /\ last.op = "reset"
    /\ ~before.paused /\ before.simulation_time >= 2
    /\ before.bodies[2].position # Constructed.bodies[2].position

\* C3: every update() call made while not paused completes and adds self.dt
\* to simulation_time, which is never negative and is k * self.dt after k such
\* calls since construction or the last reset.
C3_UpdateAdvancesTime ==
    /\ NonPausedUpdate =>
          /\ exc = "none"
          /\ sim.simulation_time = before.simulation_time + sim.dt
    /\ sim.simulation_time >= 0
    /\ sim.simulation_time = ticks * sim.dt

\* C4: after a non-paused update() every body but the central one has
\* velocity = velocity before + acceleration * dt and
\* position = position before + velocity after * dt, with the acceleration of
\* that update and dt the simulator's fixed tick.
C4_SemiImplicitEuler ==
    NonPausedUpdate =>
        \A i \in 2..Len(sim.bodies) :
            /\ sim.bodies[i].velocity =
                   IAdd(before.bodies[i].velocity,
                        VecScale(sim.bodies[i].acceleration, F(sim.dt)))
            /\ sim.bodies[i].position =
                   IAdd(before.bodies[i].position,
                        VecScale(sim.bodies[i].velocity, F(sim.dt)))

\* C5: the central body's acceleration is the zero vector in every state, and
\* its position and velocity stay what the constructor gave it.
C5_CentralBodyFixed ==
    /\ \A j \in 1..Len(sim.bodies[1].acceleration) :
          IsZero(sim.bodies[1].acceleration[j])
    /\ sim.bodies[1].position = Constructed.bodies[1].position
    /\ sim.bodies[1].velocity = Constructed.bodies[1].velocity

\* non-paused updates have completed and the orbiting body has moved
C5_Witness ==
    /\ NonPausedUpdate /\ exc = "none" /\ sim.simulation_time >= 2
    /\ sim.bodies[2].position # Constructed.bodies[2].position

\* C7: in every state position, velocity and acceleration of a body have the
\* same number of components, the same for all bodies of the simulation.
C7_OneDimension ==
    \A i \in 1..Len(sim.bodies) :
        /\ Len(sim.bodies[i].position) = Len(sim.bodies[i].velocity)
        /\ Len(sim.bodies[i].velocity) = Len(sim.bodies[i].acceleration)
        /\ Len(sim.bodies[i].position) = Len(sim.bodies[1].position)

C10_TogglesFlipOneFlag ==
    /\ last.op = "space" => sim = [before EXCEPT !.paused = ~before.paused]
    /\ last.op = "c" =>
          sim = [before EXCEPT !.use_constant_acceleration =
                                   ~before.use_constant_acceleration]
    /\ NonPausedUpdate =>
          SameBodies(sim.bodies,
                     update([before EXCEPT !.use_constant_acceleration =
                                               ~before.use_constant_acceleration],
                            last.dt).sim.bodies)

\* a completed non-paused update in constant-acceleration mode
C10_Witness ==
    /\ NonPausedUpdate /\ exc = "none"
    /\ before.use_constant_acceleration
    /\ sim.bodies[2].velocity # before.bodies[2].velocity

\* C11: in a non-paused update() every update_acceleration call precedes
\* every update_position call, so each body's acceleration afterwards is the
\* one computed from the bodies as they were when the update began, also
\* when a later update_position raises; simulation_time is incremented only
\* after every body's update_position has returned.
C11_AccelerationsBeforePositions ==
    NonPausedUpdate =>
        /\ \A i \in 1..Len(sim.bodies) :
              sim.bodies[i].acceleration =
                  update_acceleration(before.bodies, i, before.scale,
                                      before.use_constant_acceleration).acceleration
        /\ exc # "none" => sim.simulation_time = before.simulation_time
        /\ sim.simulation_time # before.simulation_time =>
              \A i \in 1..Len(sim.bodies) :
                  /\ sim.bodies[i].trail # <<>>
                  /\ sim.bodies[i].trail[Len(sim.bodies[i].trail)] =
                         sim.bodies[i].position
                  /\ sim.bodies[i].position =
                         update_position(
                             update_acceleration(before.bodies, i, before.scale,
                                 before.use_constant_acceleration),
                             before.dt).body.position

\* a non-paused update of a world whose orbiting body has left the x axis:
\* its new acceleration has a y component
C11_Witness ==
    /\ NonPausedUpdate
    /\ before.simulation_time >= 1
    /\ ~IsZero(sim.bodies[2].acceleration[2])
    /\ sim.simulation_time = before.simulation_time + 1

----------------------------------------------------------------------------
(* A CelestialBody on its own: update_position and reset, call after call *)

\* appends a run makes beyond max_trail_length
MaxEvictions == 3

\* the bodies a run starts from: [x, y] as the class documents, one of them
\* after an update_acceleration towards a mass at the origin, and one
\* [x, y, z] as main.py builds
TrailBodies ==
    {CelestialBody(F(10), p, v) :
        p \in {<<F(0), F(0)>>, <<F(150), F(0)>>},
        v \in {<<F(1), F(0)>>, <<F(0), Flt(2582, -3)>>}}
    \cup {update_acceleration(
              <<CelestialBody(F(1000), Zeros(2), Zeros(2)),
                CelestialBody(F(10), <<F(3), F(4)>>, <<F(0), F(1)>>)>>,
              2, Flt(1, 9), FALSE)}
    \cup {CelestialBody(F(10), <<F(150), F(0), F(0)>>, <<F(0), F(1), F(0)>>)}

\* the step a caller hands to update_position, the same at every call of a
\* run, as update() hands self.dt
TrailDts == {1, 2}

InitBody ==
    /\ body \in TrailBodies
    /\ before = body
    /\ \E d \in TrailDts : last = Op("init", d, d)
    /\ exc = "none"
    /\ ticks = 0
    /\ sim = Idle /\ twin = Idle /\ running = TRUE
    /\ center = Idle /\ force = Idle

Positioned(r) ==
    /\ body' = r.body
    /\ exc' = r.exc
    /\ before' = body
    /\ last' = [last EXCEPT !.op = "update_position"]
    /\ ticks' = ticks + 1
    /\ UNCHANGED <<sim, twin, running, center, force>>

BodyUpdatePosition ==
    /\ ticks < body.max_trail_length + MaxEvictions
    /\ Positioned(update_position(body, last.dt))

BodyReset ==
    /\ body' = reset(body)
    /\ exc' = "none"
    /\ before' = body
    /\ last' = [last EXCEPT !.op = "reset"]
    /\ ticks' = 0
    /\ UNCHANGED <<sim, twin, running, center, force>>

NextBody == BodyUpdatePosition \/ BodyReset

SpecBody == InitBody /\ [][NextBody]_vars

\* C6: a trail is never longer than max_trail_length; an append that would
\* make it longer removes the first entry, the newest position becomes the
\* last entry and the entries between keep their order; reset empties it.
C6_TrailBounded ==
    /\ Len(body.trail) <= body.max_trail_length
    /\ body.max_trail_length = 500
    /\ (last.op = "update_position" /\ exc = "none") =>
          /\ body.trail[Len(body.trail)] = body.position
          /\ body.trail =
                IF Len(before.trail) = body.max_trail_length
                THEN Append(Tail(before.trail), body.position)
                ELSE Append(before.trail, body.position)
    /\ last.op = "reset" => body.trail = <<>>

\* an append to a full trail of distinct positions
C6_Witness ==
    /\ last.op = "update_position" /\ exc = "none"
    /\ Len(before.trail) = 500 /\ Len(body.trail) = 500
    /\ before.trail[1] # before.trail[2]
    /\ body.trail[1] = before.trail[2]

----------------------------------------------------------------------------
(* Long runs of the host loop: run() as written, handing update its local   *)
(* dt = 100 every frame, for more ticks than a trail holds                  *)

RunDt == 100

UpdateLong ==
    /\ running
    /\ sim.paused \/ sim.simulation_time < max_trail_length + MaxEvictions
    /\ Updated(update(sim, RunDt), update(twin.sim, RunDt), RunDt, RunDt)

NextLong == KeySpace \/ KeyC \/ KeyR \/ Quit \/ UpdateLong

SpecLong == Init /\ [][NextLong]_vars

Min(a, b) == IF a < b THEN a ELSE b

\* C12: in every state, for every body, the trail holds
\* min(simulation_time / self.dt, max_trail_length) entries and, when it is
\* not empty, ends with the body's position; so a trail is empty exactly
\* when simulation_time = 0.
C12_TrailFollowsClock ==
    \A i \in 1..Len(sim.bodies) :
        /\ Len(sim.bodies[i].trail) =
               Min(sim.simulation_time \div sim.dt, sim.bodies[i].max_trail_length)
        /\ sim.simulation_time % sim.dt = 0
        /\ sim.bodies[i].trail # <<>> =>
               sim.bodies[i].trail[Len(sim.bodies[i].trail)] = sim.bodies[i].position
        /\ (sim.bodies[i].trail = <<>>) <=> (sim.simulation_time = 0)

\* the clock has passed max_trail_length ticks: full trails, oldest entries gone
C12_Witness ==
    /\ sim.simulation_time > max_trail_length
    /\ Len(sim.bodies[2].trail) = max_trail_length
    /\ sim.bodies[2].trail[1] # before.bodies[2].trail[1]
    /\ last.op = "update" /\ ~before.paused

----------------------------------------------------------------------------
(* calculate_force and update_acceleration as functions of their arguments *)

ForcePositions ==
    {<<F(0), F(0)>>, <<F(150), F(0)>>, <<F(3), F(4)>>, <<F(0), Flt(1, -11)>>,
     <<F(0), F(0), F(0)>>, <<F(150), F(0), F(0)>>, <<F(1), F(2), F(2)>>}

ForceMasses == {F(1), F(10), F(1000), Flt(1, 150)}

InitForce ==
    /\ \E p \in ForcePositions, q \in ForcePositions, m \in ForceMasses,
          c \in ForceMasses :
          /\ Len(p) = Len(q)
          /\ body = CelestialBody(m, p, Zeros(Len(p)))
          /\ center = CelestialBody(c, q, Zeros(Len(q)))
    /\ before = body
    /\ force = Idle
    /\ last = [op |-> "init", flag |-> FALSE]
    /\ exc = "none"
    /\ ticks = 0
    /\ sim = Idle /\ twin = Idle /\ running = TRUE

\* force = self.calculate_force(center_body, scale, use_constant_acceleration)
CalculateForce ==
    /\ \E flag \in BOOLEAN :
          /\ force' = calculate_force(body, center, Flt(1, 9), flag)
          /\ last' = [op |-> "calculate_force", flag |-> flag]
    /\ before' = body
    /\ UNCHANGED <<sim, twin, running, exc, body, center, ticks>>

\* self.update_acceleration([center_body, self], scale, use_constant_acceleration)
BodyUpdateAcceleration ==
    /\ \E flag \in BOOLEAN :
          /\ body' = update_acceleration(<<center, body>>, 2, Flt(1, 9), flag)
          /\ last' = [op |-> "update_acceleration", flag |-> flag]
    /\ before' = body
    /\ UNCHANGED <<sim, twin, running, exc, center, force, ticks>>

NextForce == CalculateForce \/ BodyUpdateAcceleration

SpecForce == InitForce /\ [][NextForce]_vars

Coincident == last.op = "calculate_force" /\ body.position = center.position

\* G * m1 * m2 / epsilon^2
FloorMagnitude ==
    Div(Mul(Mul(ForceG, center.mass), body.mass), Mul(Epsilon, Epsilon))

====
